---------------------------- MODULE Spec2Model ----------------------------
(***************************************************************************)
(* Cutter radius compensation preprocessor (G40/G41/G42) of the Carvera    *)
(* community firmware: src/modules/robot/CompensationPreprocessor.          *)
(*                                                                         *)
(* Numbers.  The firmware computes in 32-bit floats.  The model computes   *)
(* in fixed point: a length is an integer count of 0.00001 machine units   *)
(* (the firmware's epsilon), a dimensionless quantity (a unit vector       *)
(* component) is an integer count of 1/UnitScale.  Every product is        *)
(* rescaled with rounding to nearest, so axis-aligned geometry is exact    *)
(* and oblique geometry carries a rounding error, as it does in floats.    *)
(* A feed rate is an integer count of 0.01.                                *)
(* C arrays are 0-based, tuples are 1-based: X_AXIS, Y_AXIS, Z_AXIS are    *)
(* the components 1, 2, 3 of a position.                                   *)
(***************************************************************************)
EXTENDS Integers, Sequences, FiniteSets, TLC

\* ------------------------------------------------------------------------
\* Program constants
\* ------------------------------------------------------------------------
BUFFER_SIZE == 10

\* Number of fixed-point steps in 1.0 for dimensionless quantities.
UnitScale == 1000

\* Number of length steps in 1.0 machine units.
LenScale == 100000

\* 0.00001f as a length is one length step: "mag > 0.00001f" is "mag > 1".
EpsLen == 1

\* 0.00001f compared with a product of two unit-vector components
\* (scale UnitScale * UnitScale): 0.00001 * 1000 * 1000.
EpsDet == 10

\* "%.4f" keeps 4 decimals, i.e. multiples of 10 length steps.
Fmt4Step == 10

\* "%.1f" keeps 1 decimal, i.e. multiples of 10 feed steps.
Fmt1Step == 10

NONE == "NONE"
LEFT == "LEFT"
RIGHT == "RIGHT"
CompensationType == {NONE, LEFT, RIGHT}

\* ------------------------------------------------------------------------
\* Fixed-point arithmetic (the float operations of <cmath>)
\* ------------------------------------------------------------------------
Abs(a) == IF a < 0 THEN -a ELSE a

Sign(a) == IF a < 0 THEN -1 ELSE IF a > 0 THEN 1 ELSE 0

\* a / b rounded to the nearest integer (ties away from zero), b # 0.
RoundDiv(a, b) ==
    LET n == Abs(a)
        d == Abs(b)
        q == (2 * n + d) \div (2 * d)
    IN  Sign(a) * Sign(b) * q

\* a * m / b rounded to nearest, split so that no intermediate overflows.
MulDiv(a, m, b) ==
    LET n == Abs(a)
        d == Abs(b)
        q == n \div d
        r == n % d
    IN  Sign(a) * Sign(b) * (q * m + RoundDiv(r * m, d))

RECURSIVE SqrtSearch(_, _, _)
\* largest s in lo..hi with s * s <= n
SqrtSearch(n, lo, hi) ==
    IF lo >= hi THEN lo
    ELSE LET mid == (lo + hi + 1) \div 2
         IN  IF mid * mid <= n THEN SqrtSearch(n, mid, hi)
             ELSE SqrtSearch(n, lo, mid - 1)

\* sqrtf(n), rounded to the nearest integer
Sqrtf(n) ==
    LET s == SqrtSearch(n, 0, 46340)
    IN  IF n - s * s > s THEN s + 1 ELSE s

\* snprintf("%.4f") of a length, read back by the Gcode parser
Fmt4(v) == RoundDiv(v, Fmt4Step) * Fmt4Step

\* snprintf("%.1f") of a feed rate, read back by the Gcode parser
Fmt1(v) == RoundDiv(v, Fmt1Step) * Fmt1Step

\* ------------------------------------------------------------------------
\* Gcode objects (class Gcode): motion code plus words
\* ------------------------------------------------------------------------
\* A Gcode is [has_g, g, has_m, m, words]; words maps each letter present
\* on the line to its value.
has_letter(gcode, c) == c \in DOMAIN gcode.words

get_value(gcode, c) == gcode.words[c]

NullGcode == [has_g |-> FALSE, g |-> 0, has_m |-> FALSE, m |-> 0,
              words |-> [c \in {} |-> 0], null |-> TRUE]

GWord(gn, ws) == [has_g |-> TRUE, g |-> gn, has_m |-> FALSE, m |-> 0,
                  words |-> ws, null |-> FALSE]

MWord(mn, ws) == [has_g |-> FALSE, g |-> 0, has_m |-> TRUE, m |-> mn,
                  words |-> ws, null |-> FALSE]

\* A command line is a sequence of <<letter, value>> tokens.  The Gcode
\* constructor takes G into has_g/g, M into has_m/m, the rest into words.
TokenLetters(cmd) == {cmd[i][1] : i \in 1..Len(cmd)}

TokenValue(cmd, c) == cmd[CHOOSE i \in 1..Len(cmd) : cmd[i][1] = c][2]

ParseGcode(cmd) ==
    LET ls == TokenLetters(cmd)
    IN  [has_g |-> "G" \in ls,
         g     |-> IF "G" \in ls THEN TokenValue(cmd, "G") ELSE 0,
         has_m |-> "M" \in ls,
         m     |-> IF "M" \in ls THEN TokenValue(cmd, "M") ELSE 0,
         words |-> [c \in ls \ {"G", "M"} |-> TokenValue(cmd, c)],
         null  |-> FALSE]

\* ------------------------------------------------------------------------
\* Geometry kernel
\* ------------------------------------------------------------------------
\* The in-line normalisation of apply_compensation:
\*   mag = sqrtf(dx*dx + dy*dy); if (mag > 0.00001f) { dx /= mag; dy /= mag; }
\* The input is a length vector; the result is dimensionless when it was
\* normalised and is the raw vector (read as dimensionless) when it was not.
Normalize2(dx, dy) ==
    LET mag == Sqrtf(dx * dx + dy * dy)
    IN  IF mag > EpsLen
        THEN <<MulDiv(dx, UnitScale, mag), MulDiv(dy, UnitScale, mag)>>
        ELSE <<MulDiv(dx, UnitScale, LenScale), MulDiv(dy, UnitScale, LenScale)>>

cross_product_2d(v1, v2) == v1[1] * v2[2] - v1[2] * v2[1]

\* output[0..1] of calculate_perpendicular_offset
calculate_perpendicular_offset(endpoint, direction, radius, is_left) ==
    LET ux == direction[1]
        uy == direction[2]
        nx == IF is_left THEN -uy ELSE uy
        ny == IF is_left THEN ux ELSE -ux
    IN  <<endpoint[1] + MulDiv(nx, radius, UnitScale),
          endpoint[2] + MulDiv(ny, radius, UnitScale)>>

\* calculate_corner_intersection stopping at the start of the first offset
\* line (t1 taken as 0)
calculate_corner_intersection_without_t1(corner_point, dir1, dir2, radius, is_left) ==
    [ok |-> Abs(cross_product_2d(dir1, dir2)) >= EpsDet,
     output |-> calculate_perpendicular_offset(corner_point, dir1, radius,
                                               is_left)]

\* calculate_corner_intersection: [ok, output]
calculate_corner_intersection(corner_point, dir1, dir2, radius, is_left) ==
    LET u1x == dir1[1]
        u1y == dir1[2]
        u2x == dir2[1]
        u2y == dir2[2]
        n1x == IF is_left THEN -u1y ELSE u1y
        n1y == IF is_left THEN u1x ELSE -u1x
        n2x == IF is_left THEN -u2y ELSE u2y
        n2y == IF is_left THEN u2x ELSE -u2x
        p1x == corner_point[1] + MulDiv(n1x, radius, UnitScale)
        p1y == corner_point[2] + MulDiv(n1y, radius, UnitScale)
        p2x == corner_point[1] + MulDiv(n2x, radius, UnitScale)
        p2y == corner_point[2] + MulDiv(n2y, radius, UnitScale)
        det == u1x * u2y - u1y * u2x
        dx  == p2x - p1x
        dy  == p2y - p1y
        \* t1 is a length: (length * unit) / (unit * unit) * unit
        t1  == MulDiv(dx * u2y - dy * u2x, UnitScale, det)
    IN  IF Abs(det) < EpsDet
        THEN [ok |-> FALSE, output |-> <<0, 0>>]
        ELSE [ok |-> TRUE,
              output |-> <<p1x + MulDiv(t1, u1x, UnitScale),
                           p1y + MulDiv(t1, u1y, UnitScale)>>]

is_inside_corner(dir1, dir2, is_left) ==
    LET cross == cross_product_2d(dir1, dir2)
    IN  IF is_left THEN cross < 0 ELSE cross > 0

\* compensate_arc_endpoint: [ok, arc_endpoint, arc_ij]; the two arrays are
\* left as they were when the function returns false.
compensate_arc_endpoint(uncomp_start, comp_start, arc_endpoint, arc_ij, comp_radius, is_left, is_cw) ==
    LET i == arc_ij[1]
        j == arc_ij[2]
        center_x == uncomp_start[1] + i
        center_y == uncomp_start[2] + j
        to_end_x == arc_endpoint[1] - center_x
        to_end_y == arc_endpoint[2] - center_y
        arc_radius == Sqrtf(to_end_x * to_end_x + to_end_y * to_end_y)
        nx == MulDiv(to_end_x, UnitScale, arc_radius)
        ny == MulDiv(to_end_y, UnitScale, arc_radius)
        tangent_x == IF is_cw THEN -ny ELSE ny
        tangent_y == IF is_cw THEN nx ELSE -nx
        offset_outward == (is_left /\ ~is_cw) \/ (~is_left /\ is_cw)
        offset_sign == IF offset_outward THEN 1 ELSE -1
        offset_x == MulDiv(tangent_x, comp_radius, UnitScale) * offset_sign
        offset_y == MulDiv(tangent_y, comp_radius, UnitScale) * offset_sign
    IN  IF arc_radius < EpsLen
        THEN [ok |-> FALSE, arc_endpoint |-> arc_endpoint, arc_ij |-> arc_ij]
        ELSE [ok |-> TRUE,
              arc_endpoint |-> <<arc_endpoint[1] + offset_x,
                                 arc_endpoint[2] + offset_y>>,
              arc_ij |-> <<center_x - comp_start[1],
                           center_y - comp_start[2]>>]

\* ------------------------------------------------------------------------
\* Inputs
\* ------------------------------------------------------------------------
\* Largest number of commands accepted by buffer_gcode in one run of Spec.
MaxCmds == 3

\* Largest number of set_compensation / flush / clear /
\* set_initial_position calls in one run.
MaxCtl == 2

\* Largest number of commands accepted in one run of SpecCap.
MaxCapCmds == 11

\* Largest number of commands accepted in one run of SpecLines.
MaxLineCmds == 4

\* Largest number of commands accepted in one run of SpecTurns.
MaxTurnCmds == 4

\* Largest number of commands accepted in one run of SpecDrain.
MaxDrainCmds == 4

\* Largest number of commands accepted in one run of SpecRadius.
MaxRadiusCmds == 3

\* Largest number of set_compensation / flush calls in one run of
\* SpecRadius.
MaxRadiusCtl == 2

\* Largest number of commands accepted in one run of SpecPlunge.
MaxPlungeCmds == 3

\* G1 X0.01 Y0 F100.26 S1000
LineA == GWord(1, [X |-> 1000, Y |-> 0, F |-> 10026, S |-> 1000])
\* G1 X0.02
LineB == GWord(1, [X |-> 2000])
\* G1 X0.03
LineC == GWord(1, [X |-> 3000])
\* G1 Y0.01
Turn == GWord(1, [Y |-> 1000])
\* G0 X0 Y0 Z0.01
Rapid == GWord(0, [X |-> 0, Y |-> 0, Z |-> 1000])
\* G2 X0.02 Y0 I0.01 J0
ArcCW == GWord(2, [X |-> 2000, Y |-> 0, I |-> 1000, J |-> 0])
\* G3 X0 Y0 I-0.01 J0
ArcCCW == GWord(3, [X |-> 0, Y |-> 0, I |-> -1000, J |-> 0])
\* G1 X0.01 Z-0.01004
Plunge == GWord(1, [X |-> 1000, Z |-> -1004])
\* M3 S1000
SpindleOn == MWord(3, [S |-> 1000])

Cmds == {LineA, LineB, Rapid, ArcCW, SpindleOn}

CapCmds == {LineB}

LineCmds == {LineA, LineB, LineC}

TurnCmds == {LineB, LineC, Turn}

DrainCmds == {LineB, SpindleOn}

RadiusCmds == {LineA, Turn, ArcCW}

PlungeCmds == {Plunge, Turn, ArcCW}

\* Direction vectors of length 1: along the axes, along the diagonals
\* (0.707, 0.707) and along 3-4-5 triangles (0.6, 0.8).
UnitDirs ==
    {<<1000, 0>>, <<0, 1000>>, <<-1000, 0>>, <<0, -1000>>,
     <<707, 707>>, <<-707, 707>>, <<707, -707>>, <<-707, -707>>,
     <<600, 800>>, <<-800, 600>>, <<800, -600>>, <<-600, -800>>}

CornerPoints == {<<0, 0>>, <<2000, 1000>>}

\* Radii handed to calculate_corner_intersection: 0.01 and 0.005
CornerRadii == {1000, 500}

\* Tool radii (the D word): 0.01
Radii == {1000}

InitialPositions == {<<0, 0, 0>>, <<1000, 0, 0>>}

\* What a read of a never-written float[3] may yield.
Indeterminate == {<<0, 0, 0>>, <<7770, -7770, 7770>>}

\* ------------------------------------------------------------------------
\* State
\* ------------------------------------------------------------------------
VARIABLE buffer                  \* BufferedGcode buffer[BUFFER_SIZE]
VARIABLE buffer_head
VARIABLE buffer_tail
VARIABLE buffer_count
VARIABLE compensation_type
VARIABLE compensation_radius
VARIABLE uncompensated_position
VARIABLE compensated_position
VARIABLE is_flushing
VARIABLE result                  \* the last call and what it returned
VARIABLE ghost                   \* per slot: identity, programmed endpoint
VARIABLE accepted                \* ids accepted by buffer_gcode, in order
VARIABLE emitted                 \* ids returned by get_compensated_gcode
VARIABLE discarded               \* ids deleted by clear() while buffered
VARIABLE nctl                    \* number of control calls made so far
VARIABLE last_motion             \* endpoint of the last motion command emitted
VARIABLE programmed              \* endpoint of the last motion command accepted

engine == <<buffer, buffer_head, buffer_tail, buffer_count,
            compensation_type, compensation_radius,
            uncompensated_position, compensated_position, is_flushing>>

vars == <<buffer, buffer_head, buffer_tail, buffer_count,
          compensation_type, compensation_radius,
          uncompensated_position, compensated_position, is_flushing,
          result, ghost, accepted, emitted, discarded, nctl, last_motion, programmed>>

Slots == 0..(BUFFER_SIZE - 1)

\* A float[3] that has not been written yet.
Uninit == <<>>

\* struct BufferedGcode.  direction[3] is written with zeros for lines and
\* never read, so it is not carried.
EmptySlot == [gcode |-> NullGcode, endpoint |-> Uninit, ijk |-> Uninit,
              has_ijk |-> FALSE, is_cw |-> FALSE, is_move |-> FALSE,
              uncomp_start |-> Uninit]

NoGhost == [id |-> 0, prog |-> Uninit]

NoResult(op, ok) == [op |-> op, ok |-> ok, out |-> NullGcode,
                     src |-> EmptySlot, id |-> 0, prog |-> Uninit,
                     count |-> 0]

\* buffer_has_space with the comparison off by one
buffer_has_space_off_by_one == buffer_count <= BUFFER_SIZE

buffer_has_space == buffer_count < BUFFER_SIZE

\* buffer_next_index stopping at the last slot instead of wrapping
buffer_next_index_saturating(index) == IF index + 1 >= BUFFER_SIZE THEN index ELSE index + 1

\* buffer_next_index wrapping one slot early
buffer_next_index_short(index) == (index + 1) % (BUFFER_SIZE - 1)

buffer_next_index(index) == (index + 1) % BUFFER_SIZE

is_active == compensation_type # NONE

\* The slots from tail to head, oldest first.
RECURSIVE LiveFrom(_, _)
LiveFrom(index, n) ==
    IF n = 0 THEN <<>>
    ELSE <<index>> \o LiveFrom(buffer_next_index(index), n - 1)

Live == LiveFrom(buffer_tail, buffer_count)

LiveIds == [k \in 1..buffer_count |-> ghost[Live[k]].id]

\* ------------------------------------------------------------------------
\* Constructor
\* ------------------------------------------------------------------------
\* is_flushing is not assigned by the constructor.
Init ==
    /\ buffer = [i \in Slots |-> EmptySlot]
    /\ buffer_head = 0
    /\ buffer_tail = 0
    /\ buffer_count = 0
    /\ compensation_type = NONE
    /\ compensation_radius = 0
    /\ uncompensated_position = <<0, 0, 0>>
    /\ compensated_position = <<0, 0, 0>>
    /\ is_flushing \in BOOLEAN
    /\ result = NoResult("constructor", TRUE)
    /\ ghost = [i \in Slots |-> NoGhost]
    /\ accepted = <<>>
    /\ emitted = <<>>
    /\ discarded = {}
    /\ nctl = 0
    /\ last_motion = <<0, 0, 0>>
    /\ programmed = <<0, 0, 0>>

\* ------------------------------------------------------------------------
\* buffer_gcode
\* ------------------------------------------------------------------------
\* The endpoint a motion command is programmed with: its X, Y and Z words,
\* and for a missing word the coordinate of the command before it.
Programmed(gcode) ==
    LET P(c, i) == IF has_letter(gcode, c) THEN get_value(gcode, c)
                   ELSE programmed[i]
    IN  IF gcode.has_g /\ gcode.g \in {0, 1, 2, 3}
        THEN <<P("X", 1), P("Y", 2), P("Z", 3)>>
        ELSE programmed

\* clone_and_extract taking the uncompensated start from
\* compensated_position
clone_and_extract_from_compensated(gcode, slot) ==
    LET is_move == gcode.has_g /\ gcode.g \in {0, 1, 2, 3}
        up == uncompensated_position
        ex == IF has_letter(gcode, "X") THEN get_value(gcode, "X") ELSE up[1]
        ey == IF has_letter(gcode, "Y") THEN get_value(gcode, "Y") ELSE up[2]
        ez == IF has_letter(gcode, "Z") THEN get_value(gcode, "Z") ELSE up[3]
        arc == gcode.g \in {2, 3}
        W(c) == IF has_letter(gcode, c) THEN get_value(gcode, c) ELSE 0
    IN  IF ~is_move
        THEN [slot |-> [slot EXCEPT !.gcode = gcode,
                                    !.is_move = FALSE,
                                    !.has_ijk = FALSE],
              uncompensated_position |-> up]
        ELSE [slot |-> [gcode |-> gcode,
                        endpoint |-> <<ex, ey, ez>>,
                        ijk |-> IF arc THEN <<W("I"), W("J"), W("K")>>
                                ELSE slot.ijk,
                        has_ijk |-> arc,
                        is_cw |-> IF arc THEN gcode.g = 2 ELSE slot.is_cw,
                        is_move |-> TRUE,
                        uncomp_start |-> compensated_position],
              uncompensated_position |-> <<ex, ey, ez>>]

\* clone_and_extract: [slot, uncompensated_position]
clone_and_extract(gcode, slot) ==
    LET is_move == gcode.has_g /\ gcode.g \in {0, 1, 2, 3}
        up == uncompensated_position
        ex == IF has_letter(gcode, "X") THEN get_value(gcode, "X") ELSE up[1]
        ey == IF has_letter(gcode, "Y") THEN get_value(gcode, "Y") ELSE up[2]
        ez == IF has_letter(gcode, "Z") THEN get_value(gcode, "Z") ELSE up[3]
        arc == gcode.g \in {2, 3}
        W(c) == IF has_letter(gcode, c) THEN get_value(gcode, c) ELSE 0
    IN  IF ~is_move
        THEN [slot |-> [slot EXCEPT !.gcode = gcode,
                                    !.is_move = FALSE,
                                    !.has_ijk = FALSE],
              uncompensated_position |-> up]
        ELSE [slot |-> [gcode |-> gcode,
                        endpoint |-> <<ex, ey, ez>>,
                        ijk |-> IF arc THEN <<W("I"), W("J"), W("K")>>
                                ELSE slot.ijk,
                        has_ijk |-> arc,
                        is_cw |-> IF arc THEN gcode.g = 2 ELSE slot.is_cw,
                        is_move |-> TRUE,
                        uncomp_start |-> up],
              uncompensated_position |-> <<ex, ey, ez>>]

\* buffer_gcode cloning into the head slot before it tests for space
buffer_gcode_extract_first(gcode) ==
    LET slot_index == buffer_head
        ce == clone_and_extract(gcode, buffer[slot_index])
    IN  /\ buffer' = [buffer EXCEPT ![slot_index] = ce.slot]
        /\ uncompensated_position' = ce.uncompensated_position
        /\ IF ~buffer_has_space
           THEN /\ result' = NoResult("buffer_gcode", FALSE)
                /\ UNCHANGED <<buffer_head, buffer_count, ghost, accepted>>
           ELSE /\ buffer_head' = buffer_next_index(buffer_head)
                /\ buffer_count' = buffer_count + 1
                /\ ghost' = [ghost EXCEPT ![slot_index] =
                               [id |-> Len(accepted) + 1,
                                prog |-> IF ce.slot.is_move
                                         THEN ce.slot.endpoint ELSE Uninit]]
                /\ accepted' = Append(accepted, Len(accepted) + 1)
                /\ result' = [NoResult("buffer_gcode", TRUE) EXCEPT
                                !.id = Len(accepted) + 1]
        /\ UNCHANGED <<buffer_tail, compensation_type, compensation_radius,
                       compensated_position, is_flushing, emitted, discarded,
                       nctl, last_motion>>
        /\ programmed' = IF buffer_has_space THEN Programmed(gcode)
                          ELSE programmed

buffer_gcode(gcode) ==
    IF ~buffer_has_space
    THEN /\ result' = NoResult("buffer_gcode", FALSE)
         /\ UNCHANGED <<engine, ghost, accepted, emitted, discarded, nctl,
                     last_motion, programmed>>
    ELSE LET slot_index == buffer_head
             ce == clone_and_extract(gcode, buffer[slot_index])
             id == Len(accepted) + 1
         IN  /\ buffer' = [buffer EXCEPT ![slot_index] = ce.slot]
             /\ uncompensated_position' = ce.uncompensated_position
             /\ buffer_head' = buffer_next_index(buffer_head)
             /\ buffer_count' = buffer_count + 1
             /\ ghost' = [ghost EXCEPT ![slot_index] =
                            [id |-> id,
                             prog |-> IF ce.slot.is_move
                                      THEN ce.slot.endpoint ELSE Uninit]]
             /\ accepted' = Append(accepted, id)
             /\ result' = [NoResult("buffer_gcode", TRUE) EXCEPT !.id = id]
             /\ UNCHANGED <<buffer_tail, compensation_type,
                            compensation_radius, compensated_position,
                            is_flushing, emitted, discarded, nctl,
                            last_motion>>
             /\ programmed' = Programmed(gcode)

\* ------------------------------------------------------------------------
\* get_compensated_gcode
\* ------------------------------------------------------------------------
\* modify_gcode_coordinates formats a command line into a local array and
\* drops it: the Gcode object it is given is left as it was.
modify_gcode_coordinates(gcode, new_endpoint, new_ijk, has_ijk) == gcode

\* The direction of a straight move as apply_compensation computes it when
\* the next buffered move is a straight move too (dir1).
CornerDir1(index) ==
    LET current == buffer[index]
        prev_x == IF index = buffer_tail
                  THEN uncompensated_position[1] - current.endpoint[1]
                  ELSE buffer[(index - 1 + BUFFER_SIZE) % BUFFER_SIZE].endpoint[1]
        prev_y == IF index = buffer_tail
                  THEN uncompensated_position[2] - current.endpoint[2]
                  ELSE buffer[(index - 1 + BUFFER_SIZE) % BUFFER_SIZE].endpoint[2]
    IN  Normalize2(current.endpoint[1] - prev_x, current.endpoint[2] - prev_y)

\* The direction of a straight move in the two branches that do not look at
\* the next move (dir).
PlainDir(index) ==
    LET current == buffer[index]
        prev_x == uncompensated_position[1]
        prev_y == uncompensated_position[2]
    IN  Normalize2(current.endpoint[1] - prev_x, current.endpoint[2] - prev_y)

\* The branch apply_compensation takes for the slot.
Branch(index) ==
    LET current == buffer[index]
        next_index == buffer_next_index(index)
        next == buffer[next_index]
    IN  IF ~current.is_move THEN "none"
        ELSE IF current.has_ijk THEN "arc"
        ELSE IF buffer_count > 1 /\ next_index # buffer_head
             THEN IF next.is_move /\ ~next.has_ijk THEN "corner"
                  ELSE "next_not_line"
             ELSE "no_next"

\* apply_compensation: the slot as it is left in the buffer
apply_compensation(index) ==
    LET current == buffer[index]
        is_left == compensation_type = LEFT
        next == buffer[buffer_next_index(index)]
        ep2 == <<current.endpoint[1], current.endpoint[2]>>
        br == Branch(index)
        arc == compensate_arc_endpoint(
                   <<current.uncomp_start[1], current.uncomp_start[2]>>,
                   <<compensated_position[1], compensated_position[2]>>,
                   ep2, <<current.ijk[1], current.ijk[2]>>,
                   compensation_radius, is_left, current.is_cw)
        dir1 == CornerDir1(index)
        dir2 == Normalize2(next.endpoint[1] - current.endpoint[1],
                           next.endpoint[2] - current.endpoint[2])
        corner == calculate_corner_intersection(ep2, dir1, dir2,
                                                compensation_radius, is_left)
        new_xy == IF br = "arc" THEN arc.arc_endpoint
                  ELSE IF br = "corner"
                       THEN IF corner.ok THEN corner.output
                            ELSE calculate_perpendicular_offset(
                                     ep2, dir1, compensation_radius, is_left)
                       ELSE calculate_perpendicular_offset(
                                ep2, PlainDir(index), compensation_radius,
                                is_left)
        new_endpoint == <<new_xy[1], new_xy[2], current.endpoint[3]>>
        new_ijk == IF br = "arc"
                   THEN <<arc.arc_ij[1], arc.arc_ij[2], current.ijk[3]>>
                   ELSE current.ijk
    IN  IF br = "none" THEN current
        ELSE [current EXCEPT
                !.endpoint = new_endpoint,
                !.ijk = new_ijk,
                !.gcode = modify_gcode_coordinates(current.gcode, new_endpoint,
                                                   new_ijk, current.has_ijk)]

\* The members apply_compensation reads, as one record.
Members ==
    [buffer |-> buffer, buffer_head |-> buffer_head,
     buffer_tail |-> buffer_tail, buffer_count |-> buffer_count,
     compensation_type |-> compensation_type,
     compensation_radius |-> compensation_radius,
     uncompensated_position |-> uncompensated_position,
     compensated_position |-> compensated_position]

\* dir1 of apply_compensation, computed from the member values e.
CornerDir1Of(e, index) ==
    LET current == e.buffer[index]
        before == e.buffer[(index - 1 + BUFFER_SIZE) % BUFFER_SIZE]
        prev_x == IF index = e.buffer_tail
                  THEN e.uncompensated_position[1] - current.endpoint[1]
                  ELSE before.endpoint[1]
        prev_y == IF index = e.buffer_tail
                  THEN e.uncompensated_position[2] - current.endpoint[2]
                  ELSE before.endpoint[2]
    IN  Normalize2(current.endpoint[1] - prev_x, current.endpoint[2] - prev_y)

\* dir2 of apply_compensation: from the current to the next endpoint.
CornerDir2Of(e, index) ==
    LET current == e.buffer[index]
        next == e.buffer[buffer_next_index(index)]
    IN  Normalize2(next.endpoint[1] - current.endpoint[1],
                   next.endpoint[2] - current.endpoint[2])

\* dir of apply_compensation in the two branches that do not look at the
\* next move.
PlainDirOf(e, index) ==
    LET current == e.buffer[index]
        prev_x == e.uncompensated_position[1]
        prev_y == e.uncompensated_position[2]
    IN  Normalize2(current.endpoint[1] - prev_x, current.endpoint[2] - prev_y)

\* The branch apply_compensation takes for the slot, given the member
\* values e.
BranchOf(e, index) ==
    LET current == e.buffer[index]
        next_index == buffer_next_index(index)
        next == e.buffer[next_index]
    IN  IF ~current.is_move THEN "none"
        ELSE IF current.has_ijk THEN "arc"
        ELSE IF e.buffer_count > 1 /\ next_index # e.buffer_head
             THEN IF next.is_move /\ ~next.has_ijk THEN "corner"
                  ELSE "next_not_line"
             ELSE "no_next"

\* The call of calculate_corner_intersection in apply_compensation.
CornerOf(e, index) ==
    LET current == e.buffer[index]
    IN  calculate_corner_intersection(
            <<current.endpoint[1], current.endpoint[2]>>,
            CornerDir1Of(e, index), CornerDir2Of(e, index),
            e.compensation_radius, e.compensation_type = LEFT)

\* apply_compensation run on the member values e: the slot as it is left
\* in the buffer.  apply_compensation(index) is
\* apply_compensation_of(Members, index).
apply_compensation_of(e, index) ==
    LET current == e.buffer[index]
        is_left == e.compensation_type = LEFT
        ep2 == <<current.endpoint[1], current.endpoint[2]>>
        br == BranchOf(e, index)
        arc == compensate_arc_endpoint(
                   <<current.uncomp_start[1], current.uncomp_start[2]>>,
                   <<e.compensated_position[1], e.compensated_position[2]>>,
                   ep2, <<current.ijk[1], current.ijk[2]>>,
                   e.compensation_radius, is_left, current.is_cw)
        corner == CornerOf(e, index)
        new_xy == IF br = "arc" THEN arc.arc_endpoint
                  ELSE IF br = "corner"
                       THEN IF corner.ok THEN corner.output
                            ELSE calculate_perpendicular_offset(
                                     ep2, CornerDir1Of(e, index),
                                     e.compensation_radius, is_left)
                       ELSE calculate_perpendicular_offset(
                                ep2, PlainDirOf(e, index),
                                e.compensation_radius, is_left)
        new_endpoint == <<new_xy[1], new_xy[2], current.endpoint[3]>>
        new_ijk == IF br = "arc"
                   THEN <<arc.arc_ij[1], arc.arc_ij[2], current.ijk[3]>>
                   ELSE current.ijk
    IN  IF br = "none" THEN current
        ELSE [current EXCEPT
                !.endpoint = new_endpoint,
                !.ijk = new_ijk,
                !.gcode = modify_gcode_coordinates(current.gcode, new_endpoint,
                                                   new_ijk, current.has_ijk)]

\* The command line get_compensated_gcode prints into cmd_buffer.
FormatCommand(slot, endpoint) ==
    (IF slot.gcode.has_g THEN <<<<"G", slot.gcode.g>>>> ELSE <<>>)
    \o <<<<"X", Fmt4(endpoint[1])>>, <<"Y", Fmt4(endpoint[2])>>,
         <<"Z", Fmt4(endpoint[3])>>>>
    \o (IF slot.has_ijk
        THEN <<<<"I", Fmt4(slot.ijk[1])>>, <<"J", Fmt4(slot.ijk[2])>>,
               <<"K", Fmt4(slot.ijk[3])>>>>
        ELSE <<>>)
    \o (IF has_letter(slot.gcode, "F")
        THEN <<<<"F", Fmt1(get_value(slot.gcode, "F"))>>>>
        ELSE <<>>)

\* The lookahead test with a window of 2 instead of 3
MustWaitTwo ==
    buffer_count < 2 /\ compensation_type # NONE /\ ~is_flushing

\* The lookahead test without the exception for flushing
MustWaitAlsoFlushing ==
    buffer_count < 3 /\ compensation_type # NONE

\* "Need at least 3 moves for lookahead (current + 2 ahead) UNLESS we're
\* flushing": the test that makes get_compensated_gcode return nullptr.
MustWait ==
    buffer_count < 3 /\ compensation_type # NONE /\ ~is_flushing

\* The newest slot instead of the oldest one
NewestIndex == (buffer_head + BUFFER_SIZE - 1) % BUFFER_SIZE

\* The slot get_compensated_gcode resolves and emits.
OldestIndex == buffer_tail

\* any: what the read of slot.endpoint yields when it was never written
get_compensated_gcode(any) ==
    IF buffer_count = 0 \/ MustWait
    THEN /\ result' = NoResult("get_compensated_gcode", FALSE)
         /\ UNCHANGED <<engine, ghost, accepted, emitted, discarded, nctl,
                     last_motion, programmed>>
    ELSE LET before == buffer[OldestIndex]
             slot == IF buffer_count >= 3 \/ is_flushing
                     THEN apply_compensation(OldestIndex)
                     ELSE before
             endpoint == IF slot.endpoint = Uninit THEN any
                         ELSE slot.endpoint
             output == ParseGcode(FormatCommand(slot, endpoint))
         IN  /\ compensated_position' = endpoint
             /\ buffer' = [buffer EXCEPT
                             ![OldestIndex] = [slot EXCEPT !.gcode = NullGcode]]
             /\ buffer_tail' = buffer_next_index(buffer_tail)
             /\ buffer_count' = buffer_count - 1
             /\ result' = [op |-> "get_compensated_gcode", ok |-> TRUE,
                           out |-> output, src |-> before,
                           id |-> ghost[OldestIndex].id,
                           prog |-> ghost[OldestIndex].prog,
                           count |-> buffer_count]
             /\ ghost' = [ghost EXCEPT ![OldestIndex] = NoGhost]
             /\ emitted' = Append(emitted, ghost[OldestIndex].id)
             /\ last_motion' = IF before.is_move
                               THEN <<get_value(result'.out, "X"),
                                      get_value(result'.out, "Y"),
                                      get_value(result'.out, "Z")>>
                               ELSE last_motion
             /\ UNCHANGED <<buffer_head, compensation_type,
                            compensation_radius, uncompensated_position,
                            is_flushing, accepted, discarded, nctl,
                            programmed>>

\* ------------------------------------------------------------------------
\* flush, clear, set_compensation, set_initial_position
\* ------------------------------------------------------------------------
flush ==
    /\ is_flushing' = TRUE
    /\ result' = NoResult("flush", TRUE)
    /\ nctl' = nctl + 1
    /\ UNCHANGED <<buffer, buffer_head, buffer_tail, buffer_count,
                   compensation_type, compensation_radius,
                   uncompensated_position, compensated_position,
                   ghost, accepted, emitted, discarded, last_motion, programmed>>

\* The buffer after the delete loop of clear().
Cleared == [i \in Slots |-> [buffer[i] EXCEPT !.gcode = NullGcode]]

StillBuffered == {ghost[i].id : i \in {k \in Slots : ~buffer[k].gcode.null}}

ClearBuffer ==
    /\ buffer' = Cleared
    /\ buffer_head' = 0
    /\ buffer_tail' = 0
    /\ buffer_count' = 0
    /\ is_flushing' = FALSE
    /\ ghost' = [i \in Slots |-> NoGhost]
    /\ discarded' = discarded \cup StillBuffered

\* clear() resetting head, tail and count only
clear_counters_only ==
    /\ buffer_head' = 0
    /\ buffer_tail' = 0
    /\ buffer_count' = 0
    /\ result' = NoResult("clear", TRUE)
    /\ nctl' = nctl + 1
    /\ UNCHANGED <<buffer, is_flushing, ghost, discarded, compensation_type,
                   compensation_radius, uncompensated_position,
                   compensated_position, accepted, emitted, last_motion, programmed>>

clear ==
    /\ ClearBuffer
    /\ result' = NoResult("clear", TRUE)
    /\ nctl' = nctl + 1
    /\ UNCHANGED <<compensation_type, compensation_radius,
                   uncompensated_position, compensated_position,
                   accepted, emitted, last_motion, programmed>>

\* What a set_compensation call leaves in result: the arguments it was
\* called with and the number of commands that were buffered.
SetCompensationResult(type, radius) ==
    [op |-> "set_compensation", ok |-> TRUE, out |-> NullGcode,
     src |-> EmptySlot, id |-> 0, prog |-> Uninit, count |-> buffer_count,
     args |-> <<type, radius>>]

\* set_compensation flushing and clearing for every type
set_compensation_always_clearing(type, radius) ==
    /\ compensation_type' = type
    /\ compensation_radius' = radius
    /\ ClearBuffer
    /\ result' = SetCompensationResult(type, radius)
    /\ nctl' = nctl + 1
    /\ UNCHANGED <<uncompensated_position, compensated_position,
                   accepted, emitted, last_motion, programmed>>

\* set_compensation keeping the radius it has while compensation is active
set_compensation_keeping_radius(type, radius) ==
    /\ compensation_type' = type
    /\ compensation_radius' = IF compensation_type # NONE
                              THEN compensation_radius ELSE radius
    /\ IF type = NONE
       THEN ClearBuffer
       ELSE UNCHANGED <<buffer, buffer_head, buffer_tail, buffer_count,
                        is_flushing, ghost, discarded>>
    /\ result' = SetCompensationResult(type, radius)
    /\ nctl' = nctl + 1
    /\ UNCHANGED <<uncompensated_position, compensated_position,
                   accepted, emitted, last_motion, programmed>>

set_compensation(type, radius) ==
    /\ compensation_type' = type
    /\ compensation_radius' = radius
    /\ IF type = NONE
       THEN ClearBuffer     \* flush() sets is_flushing, clear() resets it
       ELSE UNCHANGED <<buffer, buffer_head, buffer_tail, buffer_count,
                        is_flushing, ghost, discarded>>
    /\ result' = SetCompensationResult(type, radius)
    /\ nctl' = nctl + 1
    /\ UNCHANGED <<uncompensated_position, compensated_position,
                   accepted, emitted, last_motion, programmed>>

set_initial_position(position) ==
    /\ uncompensated_position' = position
    /\ compensated_position' = position
    /\ last_motion' = position
    /\ programmed' = position
    /\ result' = NoResult("set_initial_position", TRUE)
    /\ nctl' = nctl + 1
    /\ UNCHANGED <<buffer, buffer_head, buffer_tail, buffer_count,
                   compensation_type, compensation_radius, is_flushing,
                   ghost, accepted, emitted, discarded>>

\* ------------------------------------------------------------------------
\* Specifications
\* ------------------------------------------------------------------------
Control ==
    /\ nctl < MaxCtl
    /\ \/ \E type \in CompensationType, radius \in Radii :
             set_compensation(type, radius)
       \/ flush
       \/ clear

Next ==
    \/ \E gcode \in Cmds : Len(accepted) < MaxCmds /\ buffer_gcode(gcode)
    \/ \E any \in Indeterminate : get_compensated_gcode(any)
    \/ Control

Spec == Init /\ [][Next]_vars

\* Long runs of few commands: the buffer fills up and wraps around.
NextCap ==
    \/ \E gcode \in CapCmds : Len(accepted) < MaxCapCmds /\ buffer_gcode(gcode)
    \/ \E any \in Indeterminate : get_compensated_gcode(any)
    \/ \E type \in {LEFT, RIGHT}, radius \in Radii :
          nctl < 1 /\ set_compensation(type, radius)
    \/ \E position \in InitialPositions :
          nctl < 1 /\ set_initial_position(position)

SpecCap == Init /\ [][NextCap]_vars

\* Straight moves along +X under Left or Right compensation.
NextLines ==
    \/ \E gcode \in LineCmds :
          Len(accepted) < MaxLineCmds /\ buffer_gcode(gcode)
    \/ \E any \in Indeterminate : get_compensated_gcode(any)
    \/ \E type \in {LEFT, RIGHT}, radius \in Radii :
          nctl < MaxCtl /\ set_compensation(type, radius)
    \/ nctl < MaxCtl /\ flush

SpecLines == Init /\ [][NextLines]_vars

\* Straight moves along +X and +Y under Left compensation.
NextTurns ==
    \/ \E gcode \in TurnCmds :
          Len(accepted) < MaxTurnCmds /\ buffer_gcode(gcode)
    \/ \E any \in Indeterminate : get_compensated_gcode(any)
    \/ \E type \in {LEFT}, radius \in Radii :
          nctl < MaxCtl /\ set_compensation(type, radius)
    \/ nctl < MaxCtl /\ flush

SpecTurns == Init /\ [][NextTurns]_vars

\* Few commands, every control call: enabling, disabling, flush, clear.
NextDrain ==
    \/ \E gcode \in DrainCmds :
          Len(accepted) < MaxDrainCmds /\ buffer_gcode(gcode)
    \/ \E any \in Indeterminate : get_compensated_gcode(any)
    \/ Control

SpecDrain == Init /\ [][NextDrain]_vars

\* Commands are buffered under Left with radius 0.01 only; side and radius
\* are changed while they are buffered.
NextRadius ==
    \/ \E gcode \in RadiusCmds :
          /\ Len(accepted) < MaxRadiusCmds
          /\ compensation_type = LEFT
          /\ compensation_radius = 1000
          /\ buffer_gcode(gcode)
    \/ \E any \in Indeterminate : get_compensated_gcode(any)
    \/ \E type \in {LEFT, RIGHT}, radius \in CornerRadii :
          nctl < MaxRadiusCtl /\ set_compensation(type, radius)
    \/ nctl < MaxRadiusCtl /\ flush

SpecRadius == Init /\ [][NextRadius]_vars

\* Moves with a Z word of five decimals, in every mode.
NextPlunge ==
    \/ \E gcode \in PlungeCmds :
          Len(accepted) < MaxPlungeCmds /\ buffer_gcode(gcode)
    \/ \E any \in Indeterminate : get_compensated_gcode(any)
    \/ \E type \in CompensationType, radius \in Radii :
          nctl < MaxCtl /\ set_compensation(type, radius)
    \/ nctl < MaxCtl /\ flush

SpecPlunge == Init /\ [][NextPlunge]_vars

\* calculate_corner_intersection called once, on its own.
NextCorner ==
    \E corner_point \in CornerPoints, dir1 \in UnitDirs, dir2 \in UnitDirs,
       radius \in CornerRadii, is_left \in BOOLEAN :
        LET r == calculate_corner_intersection(corner_point, dir1, dir2,
                                               radius, is_left)
        IN  /\ result.op = "constructor"
            /\ result' = [op |-> "calculate_corner_intersection",
                          ok |-> r.ok,
                          output |-> IF r.ok THEN r.output ELSE <<0, 0>>,
                          corner_point |-> corner_point,
                          dir1 |-> dir1, dir2 |-> dir2,
                          radius |-> radius, is_left |-> is_left]
            /\ UNCHANGED <<engine, ghost, accepted, emitted, discarded,
                           nctl, last_motion, programmed>>

SpecCorner == Init /\ [][NextCorner]_vars

\* ------------------------------------------------------------------------
\* Properties
\* ------------------------------------------------------------------------
IsPrefix(s, t) == Len(s) <= Len(t) /\ \A i \in 1..Len(s) : s[i] = t[i]

\* The last call was a get_compensated_gcode that returned a command.
GetReturned == result.op = "get_compensated_gcode" /\ result.ok

\* The X/Y/Z words of an emitted command.
EmittedEndpoint(gcode) ==
    <<get_value(gcode, "X"), get_value(gcode, "Y"), get_value(gcode, "Z")>>

GeometricLetters == {"X", "Y", "Z", "I", "J", "K"}

\* The words of a command restricted to a set of letters.
WordsIn(gcode, letters) ==
    [c \in DOMAIN gcode.words \cap letters |-> gcode.words[c]]

WordsNotIn(gcode, letters) ==
    [c \in DOMAIN gcode.words \ letters |-> gcode.words[c]]

\* C1: after set_compensation(NONE, r) in mode Left or Right with k >= 1
\* commands buffered, the k commands are still there to be returned by the
\* next k get_compensated_gcode calls, oldest first; none is discarded
\* without having been emitted.
C1_DisableKeepsBuffered ==
    [][(/\ result'.op = "set_compensation"
        /\ nctl' = nctl + 1
        /\ compensation_type' = NONE
        /\ compensation_type \in {LEFT, RIGHT}
        /\ buffer_count >= 1)
       => (LiveIds' = LiveIds /\ discarded' = discarded)]_vars

\* C2: as long as buffer_gcode, get_compensated_gcode and enable calls are
\* all that touched the buffer (nothing was cleared away), the commands
\* returned so far are a prefix of the commands accepted so far.
C2_Fifo == discarded = {} => IsPrefix(emitted, accepted)

C2_Witness ==
    /\ discarded = {}
    /\ compensation_type # NONE
    /\ Len(emitted) >= 2
    /\ GetReturned

\* C3: the number of buffered commands stays within 0..10, and a
\* buffer_gcode call made when 10 are buffered returns false and leaves
\* the 10 live slots, their order and head/tail/count as they were.
C3_Capacity ==
    /\ [](buffer_count \in 0..BUFFER_SIZE)
    /\ [][(buffer_count = BUFFER_SIZE /\ result'.op = "buffer_gcode")
          => /\ ~result'.ok
             /\ LiveIds' = LiveIds
             /\ \A i \in Slots : buffer'[i] = buffer[i]
             /\ UNCHANGED <<buffer_head, buffer_tail, buffer_count>>]_vars

C3_Witness ==
    /\ result.op = "buffer_gcode"
    /\ ~result.ok
    /\ buffer_count = BUFFER_SIZE
    /\ LiveIds = [k \in 1..BUFFER_SIZE |-> LiveIds[1] + k - 1]

\* C4: a buffer_gcode call that returns false changes nothing of the
\* engine: head, tail, count, slots, mode, radius, draining flag, trackers.
C4_RejectedInsertIsNoOp ==
    [][(result'.op = "buffer_gcode" /\ ~result'.ok) => UNCHANGED engine]_vars

C4_Witness ==
    /\ result.op = "buffer_gcode"
    /\ ~result.ok
    /\ compensation_type = LEFT

\* C5: in mode Left or Right and not draining, get_compensated_gcode
\* returns nothing and changes nothing when fewer than 3 commands are
\* buffered, and returns the oldest command when 3 or more are.
C5_LookaheadGate ==
    [][(/\ result'.op = "get_compensated_gcode"
        /\ compensation_type # NONE
        /\ ~is_flushing)
       => IF buffer_count < 3
          THEN ~result'.ok /\ UNCHANGED engine /\ emitted' = emitted
          ELSE /\ result'.ok
               /\ result'.id = LiveIds[1]
               /\ emitted' = Append(emitted, LiveIds[1])]_vars

C5_Witness ==
    /\ result.op = "get_compensated_gcode"
    /\ ~result.ok
    /\ buffer_count = 2
    /\ compensation_type # NONE
    /\ ~is_flushing

\* C6: when the mode is Off as a motion command is extracted, the emitted
\* X/Y/Z endpoint is the programmed endpoint.
C6_OffPassThrough ==
    (GetReturned /\ result.src.is_move /\ compensation_type = NONE)
    => EmittedEndpoint(result.out) = result.prog

\* C7: a Rapid (G0) or non-motion command is emitted with exactly the
\* coordinates it was programmed with, in every mode.
C7_RapidAndOtherUntouched ==
    /\ (GetReturned /\ ~result.src.is_move)
       => WordsIn(result.out, GeometricLetters)
          = WordsIn(result.src.gcode, GeometricLetters)
    /\ (GetReturned /\ result.src.is_move /\ result.src.gcode.g = 0)
       => EmittedEndpoint(result.out) = result.prog

\* C8: the returned command carries the motion code of the original and
\* exactly its non-geometric words with their values.
C8_PassThroughWords ==
    GetReturned
    => /\ result.out.has_g = result.src.gcode.has_g
       /\ result.out.g = result.src.gcode.g
       /\ result.out.has_m = result.src.gcode.has_m
       /\ result.out.m = result.src.gcode.m
       /\ WordsNotIn(result.out, GeometricLetters)
          = WordsNotIn(result.src.gcode, GeometricLetters)

\* The arc's center (uncompensated start plus I/J) is its endpoint.
DegenerateArc(slot) ==
    /\ slot.has_ijk
    /\ slot.uncomp_start[1] + slot.ijk[1] = slot.endpoint[1]
    /\ slot.uncomp_start[2] + slot.ijk[2] = slot.endpoint[2]

\* C9: an arc for which compensate_arc_endpoint returns false is never
\* emitted by get_compensated_gcode.
C9_DegenerateArcRejected ==
    ~(/\ GetReturned
      /\ DegenerateArc(result.src)
      /\ (result.count >= 3 \/ is_flushing)
      /\ compensation_type # NONE)

\* The programmed unit direction of a buffered straight move.
ProgrammedDir(start, prog) ==
    Normalize2(prog[1] - start[1], prog[2] - start[2])

IsLinear(slot) == slot.is_move /\ ~slot.has_ijk /\ slot.gcode.g = 1

\* The emitted move and every move still buffered are Linear moves of
\* non-zero length with one and the same programmed direction.
CollinearRun ==
    /\ IsLinear(result.src)
    /\ ProgrammedDir(result.src.uncomp_start, result.prog) # <<0, 0>>
    /\ \A k \in 1..buffer_count :
          /\ IsLinear(buffer[Live[k]])
          /\ ProgrammedDir(buffer[Live[k]].uncomp_start, ghost[Live[k]].prog)
             = ProgrammedDir(result.src.uncomp_start, result.prog)

\* The programmed endpoint displaced by radius along the normal of the
\* direction: rotated counter-clockwise for Left, clockwise for Right.
Displaced(prog, dir, radius, type) ==
    LET nx == IF type = LEFT THEN -dir[2] ELSE dir[2]
        ny == IF type = LEFT THEN dir[1] ELSE -dir[1]
    IN  <<prog[1] + MulDiv(nx, radius, UnitScale),
          prog[2] + MulDiv(ny, radius, UnitScale),
          prog[3]>>

\* C10: in a run of collinear Linear moves in one direction under Left or
\* Right, every emitted endpoint is the programmed endpoint displaced by
\* the radius along the normal of the travel direction.
C10_CollinearOffset ==
    (GetReturned /\ compensation_type \in {LEFT, RIGHT} /\ CollinearRun)
    => EmittedEndpoint(result.out)
       = Displaced(result.prog,
                   ProgrammedDir(result.src.uncomp_start, result.prog),
                   compensation_radius, compensation_type)

\* A get_compensated_gcode step that returns a command.
GetStep == result'.op = "get_compensated_gcode" /\ result'.ok /\ emitted' # emitted

\* apply_compensation is run by the step (line 344).
Resolves == buffer_count >= 3 \/ is_flushing

\* The programmed unit direction of the k-th oldest buffered command.
LiveDir(k) ==
    ProgrammedDir(buffer[Live[k]].uncomp_start, ghost[Live[k]].prog)

\* The oldest buffered move and its successor are Linear moves with one
\* and the same non-zero programmed direction.
ParallelPair ==
    /\ buffer_count >= 2
    /\ IsLinear(buffer[Live[1]])
    /\ IsLinear(buffer[Live[2]])
    /\ LiveDir(1) # <<0, 0>>
    /\ LiveDir(1) = LiveDir(2)

\* C11: when the oldest buffered move and its successor are Linear moves
\* with equal programmed directions, resolving the oldest one finds
\* calculate_corner_intersection returning false, and the endpoint is the
\* perpendicular offset, not an intersection point.
C11_ParallelFallsBack ==
    [][(GetStep /\ Resolves /\ compensation_type \in {LEFT, RIGHT}
        /\ ParallelPair)
       => ~CornerOf(Members, buffer_tail).ok]_vars

\* The last call was calculate_corner_intersection on its own.
CornerCalled == result.op = "calculate_corner_intersection"

\* Signed perpendicular distance of the point from the line through
\* corner_point along dir: positive on the left of dir, negative on the
\* right.
SignedDistance(corner_point, dir, point) ==
    RoundDiv(cross_product_2d(dir, <<point[1] - corner_point[1],
                                     point[2] - corner_point[2]>>),
             UnitScale)

\* The distance is the radius, on the side of the compensation, to within
\* one step of the arithmetic (0.00001).
AtRadius(corner_point, dir, point, radius, is_left) ==
    Abs(SignedDistance(corner_point, dir, point)
        - (IF is_left THEN radius ELSE -radius)) <= EpsLen

\* C12: for two unit direction vectors that are not parallel,
\* calculate_corner_intersection returns true and a point whose
\* perpendicular distance from the line through the corner along dir1 and
\* from the line through the corner along dir2 is the radius, on the left
\* of both for Left and on the right of both for Right.
C12_CornerEquidistant ==
    (CornerCalled /\ cross_product_2d(result.dir1, result.dir2) # 0)
    => /\ result.ok
       /\ AtRadius(result.corner_point, result.dir1, result.output,
                   result.radius, result.is_left)
       /\ AtRadius(result.corner_point, result.dir2, result.output,
                   result.radius, result.is_left)

C12_Witness ==
    /\ CornerCalled
    /\ result.ok
    /\ result.dir1 = <<1000, 0>>
    /\ result.dir2 = <<600, 800>>
    /\ result.corner_point = <<2000, 1000>>
    /\ result.is_left
    /\ result.output # result.corner_point

\* The oldest buffered command is an arc whose center is not its endpoint.
OldestIsArc ==
    /\ buffer_count >= 1
    /\ buffer[buffer_tail].is_move
    /\ buffer[buffer_tail].has_ijk
    /\ ~DegenerateArc(buffer[buffer_tail])

\* C13: for every emitted non-degenerate arc the center stays where it
\* was programmed: the endpoint of the motion command emitted just before
\* the arc (or the initial position) plus the emitted I/J is the arc's
\* uncompensated start plus its programmed I/J.
C13_ArcCenterKept ==
    [][(GetStep /\ OldestIsArc)
       => /\ last_motion[1] + get_value(result'.out, "I")
             = buffer[buffer_tail].uncomp_start[1] + buffer[buffer_tail].ijk[1]
          /\ last_motion[2] + get_value(result'.out, "J")
             = buffer[buffer_tail].uncomp_start[2] + buffer[buffer_tail].ijk[2]]_vars

\* A set_compensation step.
SetCompensationStep == result'.op = "set_compensation" /\ nctl' = nctl + 1

\* C14: set_compensation(LEFT, r) and set_compensation(RIGHT, r) leave
\* head, tail, count, every slot, the draining flag and both position
\* trackers as they were.
C14_EnableFrame ==
    [][(SetCompensationStep /\ compensation_type' \in {LEFT, RIGHT})
       => UNCHANGED <<buffer, buffer_head, buffer_tail, buffer_count,
                      is_flushing, uncompensated_position,
                      compensated_position>>]_vars

C14_Witness ==
    /\ result.op = "set_compensation"
    /\ compensation_type = RIGHT
    /\ compensation_radius = 1000
    /\ buffer_count >= 2
    /\ is_flushing
    /\ Len(emitted) >= 1

\* A clear() step.
ClearStep == result'.op = "clear" /\ nctl' = nctl + 1

\* C15: after clear() the buffer is empty (count 0, head and tail 0), no
\* slot owns a command clone, the draining flag is false, and a
\* get_compensated_gcode call that follows returns nothing.
C15_ClearEmpties ==
    /\ [][ClearStep
          => /\ buffer_count' = 0
             /\ buffer_head' = 0
             /\ buffer_tail' = 0
             /\ \A i \in Slots : buffer'[i].gcode.null
             /\ ~is_flushing']_vars
    /\ [][(result.op = "clear" /\ result'.op = "get_compensated_gcode")
          => ~result'.ok /\ emitted' = emitted]_vars

C15_Witness ==
    /\ result.op = "clear"
    /\ Cardinality(discarded) >= 2
    /\ compensation_type = LEFT
    /\ Len(emitted) >= 1

\* C16: once flush() has begun draining and extraction has emptied the
\* buffer, the draining flag is false again (checked on the extraction
\* that follows flush() with one command buffered).
C16_DrainEnds ==
    [][(result.op = "flush" /\ buffer_count = 1 /\ GetStep)
       => ~is_flushing']_vars

\* C17: while the draining flag is set, every get_compensated_gcode call
\* on a non-empty buffer returns the oldest command, however few are
\* buffered, takes it out of the buffer and leaves the flag set; so a
\* buffer of n commands is empty after exactly n such calls.
C17_DrainEmitsEach ==
    [][(result'.op = "get_compensated_gcode" /\ is_flushing
        /\ buffer_count >= 1)
       => /\ result'.ok
          /\ result'.id = LiveIds[1]
          /\ emitted' = Append(emitted, LiveIds[1])
          /\ buffer_count' = buffer_count - 1
          /\ is_flushing']_vars

C17_Witness ==
    /\ GetReturned
    /\ result.count = 1
    /\ is_flushing
    /\ compensation_type = LEFT
    /\ buffer_count = 0
    /\ Len(accepted) = 2
    /\ Len(emitted) = 2

\* C18: when draining, a Linear move of non-zero length that is the only
\* command left in the buffer is emitted with its programmed endpoint
\* displaced by the radius along the normal of its own direction (from its
\* uncompensated start to its programmed endpoint).
C18_LastMoveOffset ==
    (/\ GetReturned
     /\ result.count = 1
     /\ is_flushing
     /\ compensation_type \in {LEFT, RIGHT}
     /\ IsLinear(result.src)
     /\ ProgrammedDir(result.src.uncomp_start, result.prog) # <<0, 0>>)
    => EmittedEndpoint(result.out)
       = Displaced(result.prog,
                   ProgrammedDir(result.src.uncomp_start, result.prog),
                   compensation_radius, compensation_type)

\* The endpoint of the newest move among the three oldest buffered
\* commands: uncompensated_position as buffer_gcode left it when the third
\* of them was buffered (the oldest one is a move).
WindowPosition ==
    IF buffer[Live[3]].is_move THEN buffer[Live[3]].endpoint
    ELSE IF buffer[Live[2]].is_move THEN buffer[Live[2]].endpoint
    ELSE buffer[Live[1]].endpoint

\* The member values of the run that differs only in that nothing was
\* buffered behind the two commands that follow the oldest one.
WindowOnly ==
    [Members EXCEPT !.buffer_count = 3,
                    !.buffer_head = (buffer_tail + 3) % BUFFER_SIZE,
                    !.uncompensated_position = WindowPosition]

\* C19: the coordinates emitted for the oldest buffered move are those
\* emitted for it by the run in which nothing is buffered behind the two
\* moves that follow it.
C19_WindowOfTwo ==
    [][(GetStep /\ buffer_count > 3 /\ buffer[buffer_tail].is_move)
       => LET alone == apply_compensation_of(WindowOnly, buffer_tail)
          IN  EmittedEndpoint(result'.out)
              = <<Fmt4(alone.endpoint[1]), Fmt4(alone.endpoint[2]),
                  Fmt4(alone.endpoint[3])>>]_vars

\* C20: in every reachable state compensated_position is, to the four
\* decimals a command is printed with, the emitted endpoint of the motion
\* command emitted last, or the initial position when none was emitted;
\* emitting a non-motion command does not change it.
C20_TrackerIsLastMotion ==
    <<Fmt4(compensated_position[1]), Fmt4(compensated_position[2]),
      Fmt4(compensated_position[3])>> = last_motion

\* C21: a get_compensated_gcode call either returns nothing and leaves
\* head, tail, count and every slot as they were, or returns one command,
\* decrements count by 1 and advances tail by one slot modulo 10; on an
\* empty buffer it returns nothing and changes nothing.  buffer_gcode
\* emits nothing and leaves tail as it was.
C21_OneOutPerCall ==
    /\ [][(result'.op = "get_compensated_gcode")
          => IF result'.ok
             THEN /\ buffer_count >= 1
                  /\ buffer_count' = buffer_count - 1
                  /\ buffer_tail' = (buffer_tail + 1) % 10
                  /\ buffer_head' = buffer_head
                  /\ Len(emitted') = Len(emitted) + 1
             ELSE /\ UNCHANGED <<buffer, buffer_head, buffer_tail,
                                 buffer_count>>
                  /\ emitted' = emitted]_vars
    /\ [][(result'.op = "get_compensated_gcode" /\ buffer_count = 0)
          => ~result'.ok /\ UNCHANGED engine]_vars
    /\ [][(result'.op = "buffer_gcode")
          => emitted' = emitted /\ buffer_tail' = buffer_tail]_vars

C21_Witness ==
    /\ GetReturned
    /\ buffer_tail = 0
    /\ Len(emitted) = BUFFER_SIZE
    /\ buffer_count = 1

\* The X/Y/Z words get_compensated_gcode prints for an endpoint.
Printed(endpoint) ==
    <<Fmt4(endpoint[1]), Fmt4(endpoint[2]), Fmt4(endpoint[3])>>

AcceptsMove ==
    /\ result'.op = "buffer_gcode"
    /\ result'.ok
    /\ buffer'[buffer_head].is_move

\* C23: the uncompensated start of a buffered motion command is the
\* programmed endpoint of the motion command accepted before it (the
\* initial position if there is none), and it stays as it is while the
\* command is buffered and when it is resolved and emitted.
C23_StartIsPreviousEndpoint ==
    /\ [][AcceptsMove => buffer'[buffer_head].uncomp_start = programmed]_vars
    /\ [][\A i \in Slots :
             (/\ buffer[i].is_move
              /\ ghost[i].id # 0
              /\ (ghost'[i].id = ghost[i].id \/ (GetStep /\ i = buffer_tail)))
             => buffer'[i].uncomp_start = buffer[i].uncomp_start]_vars

\* G1 X0.01 Y0 and G1 Y0.01 were accepted and G1 X0.01 Y0 emitted with an
\* offset; the third motion command starts at X0.01 Y0.01.
C23_Witness ==
    /\ result.op = "buffer_gcode"
    /\ result.ok
    /\ result.id = 3
    /\ Len(emitted) = 1
    /\ buffer[buffer_tail].uncomp_start = <<1000, 0, 0>>
    /\ buffer[buffer_next_index(buffer_tail)].is_move
    /\ buffer[buffer_next_index(buffer_tail)].uncomp_start = <<1000, 1000, 0>>
    /\ compensated_position # <<1000, 1000, 0>>
    /\ compensated_position # <<1000, 0, 0>>

\* The Z a buffered motion command is programmed with: its Z word, or the
\* Z of the uncompensated position when it was buffered.
ProgrammedZ(slot) ==
    IF has_letter(slot.gcode, "Z") THEN get_value(slot.gcode, "Z")
    ELSE slot.uncomp_start[3]

\* C24: every motion command is emitted with the Z it was programmed with
\* (its Z word, or the tracked uncompensated Z at buffering when it has no
\* Z word), in every mode and in every branch of the resolution.
C24_ZCarriedThrough ==
    (GetReturned /\ result.src.is_move)
    => get_value(result.out, "Z") = ProgrammedZ(result.src)

\* The slots holding the buffer_count commands from buffer_tail on.
LiveWindow == {(buffer_tail + k) % 10 : k \in 0..(buffer_count - 1)}

\* C25: head is (tail + count) mod 10 and a slot owns a clone exactly when
\* it lies in the live window from tail to head; buffer_gcode stores into
\* a slot that owns none and get_compensated_gcode reads a slot that owns
\* one.
C25_WindowOwnsClones ==
    /\ [](buffer_head = (buffer_tail + buffer_count) % 10)
    /\ [](\A i \in Slots : ~buffer[i].gcode.null <=> i \in LiveWindow)
    /\ [][(result'.op = "buffer_gcode" /\ result'.ok)
          => buffer[buffer_head].gcode.null]_vars
    /\ [][GetStep => ~buffer[buffer_tail].gcode.null]_vars

C25_Witness ==
    /\ buffer_tail = 8
    /\ buffer_head = 1
    /\ buffer_count = 3
    /\ GetReturned
    /\ ~buffer[0].gcode.null
    /\ buffer[7].gcode.null

\* C26: the constructor leaves the engine in one determined state: mode
\* Off, radius 0, head = tail = count = 0, both position trackers zero and
\* the draining flag false; so as long as nothing has drained the engine,
\* get_compensated_gcode under Left or Right returns nothing while fewer
\* than 3 commands are buffered.
C26_FreshEngineDetermined ==
    /\ [](result.op = "constructor"
          => /\ compensation_type = NONE
             /\ compensation_radius = 0
             /\ buffer_head = 0 /\ buffer_tail = 0 /\ buffer_count = 0
             /\ uncompensated_position = <<0, 0, 0>>
             /\ compensated_position = <<0, 0, 0>>
             /\ ~is_flushing)
    /\ [][(/\ result'.op = "get_compensated_gcode"
           /\ compensation_type \in {LEFT, RIGHT}
           /\ buffer_count < 3)
          => ~result'.ok]_vars

=============================================================================
